---- MODULE Spec2Model ----
(***************************************************************************)
(* ToastNotification (widget/windows/ToastNotification.cpp): the service   *)
(* that owns mActiveHandlers, the name-keyed table of live                 *)
(* ToastNotificationHandler objects, and the suppression flag.             *)
(*                                                                         *)
(* All public methods run on the thread that owns the table, so they do    *)
(* not interleave with each other.  ShowAlert is split at its call of      *)
(* handler->InitAlertAsync and at its final unregistration of the old      *)
(* handler, and every path that removes an entry is split between the      *)
(* removal and the call of UnregisterHandler, so that the states between   *)
(* those steps are states of the model; while a method is between steps    *)
(* (pc # "idle") no other method runs.                                     *)
(***************************************************************************)
EXTENDS Integers, Sequences, FiniteSets, TLC

(* ------------------------------ bounds -------------------------------- *)

\* How many ToastNotificationHandler objects are ever constructed.
MaxHandlers == 2

\* The alert names in use.
Names == {"A", "B"}

(* ---------------------------- vocabulary ------------------------------ *)

\* A null RefPtr<ToastNotificationHandler> / a failed hashtable Get.
NoHandler == 0

HandlerIds == 1..MaxHandlers

NS_OK == "NS_OK"
NS_ERROR_INVALID_ARG == "NS_ERROR_INVALID_ARG"
NS_ERROR_INIT_FAILED == "NS_ERROR_INIT_FAILED"
NS_ERROR_NOT_IMPLEMENTED == "NS_ERROR_NOT_IMPLEMENTED"
NS_ERROR_OUT_OF_MEMORY == "NS_ERROR_OUT_OF_MEMORY"

\* The getters ShowAlert calls on aAlert, in the order it calls them.  The
\* error a failing getter returns is written as the getter's name.
Getters ==
  << "GetCookie", "GetName", "GetTitle", "GetText", "GetTextClickable",
     "GetSource", "GetRequireInteraction", "GetActions" >>

\* aAlert == nullptr.
NullAlert == [null |-> TRUE, name |-> "", failAt |-> 0]

\* The nsIAlertNotification arguments: nullptr, or an alert with a name whose
\* getters all succeed (failAt = 0) or whose failAt-th getter fails.
Alerts ==
  {NullAlert} \cup
  [null : {FALSE}, name : Names, failAt : 0..Len(Getters)]

\* What handler->InitAlertAsync(aAlert) may return.
InitResults == {NS_OK, NS_ERROR_INIT_FAILED}

(* ------------------------------ state --------------------------------- *)

VARIABLES
  mActiveHandlers,            \* name -> handler id, NoHandler when no entry
  mSuppressForScreenSharing,  \* the suppression flag
  mBackgroundThread,          \* whether Init has created the thread
  handlers,                   \* the handlers constructed so far, by id
  pc,                         \* where the service, or its running method, stands
  frame,                      \* the running method's locals
  last                        \* the method that returned last, and its result

vars ==
  << mActiveHandlers, mSuppressForScreenSharing, mBackgroundThread, handlers,
     pc, frame, last >>

NoFrame ==
  [name |-> "", handler |-> NoHandler, oldHandler |-> NoHandler, rv |-> NS_OK]

Created == 1..Len(handlers)

\* new ToastNotificationHandler(this, aAlertListener, name, ...): not yet
\* initialized, UnregisterHandler not yet called on it.
NewHandler(name) ==
  [name |-> name, inserted |-> FALSE, init |-> "none", unregistered |-> 0]

\* handler->UnregisterHandler(): the handler releases its platform
\* registration; the model counts the calls.
UnregisterHandler(hs, h) ==
  [hs EXCEPT ![h].unregistered = @ + 1]

\* handler->InitAlertAsync(aAlert) returned rv.
InitAlertAsync(hs, h, rv) ==
  [hs EXCEPT ![h].init = IF rv = NS_OK THEN "ok" ELSE "failed"]

Returned(op, name, handler, oldHandler, rv) ==
  [op |-> op, name |-> name, handler |-> handler, oldHandler |-> oldHandler,
   rv |-> rv]

Init ==
  /\ mActiveHandlers = [n \in Names |-> NoHandler]
  /\ mSuppressForScreenSharing = FALSE
  /\ mBackgroundThread = FALSE
  /\ handlers = << >>
  /\ pc = "constructed"
  /\ frame = NoFrame
  /\ last = Returned("ToastNotification", "", NoHandler, NoHandler, NS_OK)

(* ---------------------------- operations ------------------------------ *)

\* What Init finds: the Windows version, whether the process has an
\* AppUserModelID, whether XPCSHELL_TEST_PROFILE_DIR is set, and what
\* NS_NewNamedThread returns.
Platforms ==
  [isWin8OrLater : BOOLEAN, hasAppUserModelID : BOOLEAN,
   xpcshellTestProfileDir : BOOLEAN,
   threadRv : {NS_OK, NS_ERROR_OUT_OF_MEMORY}]

\* A slip: XPCSHELL_TEST_PROFILE_DIR excuses the Windows version as well.
InitResult_EnvExcusesVersion(aPlatform) ==
  IF ~aPlatform.xpcshellTestProfileDir
       /\ (~aPlatform.isWin8OrLater \/ ~aPlatform.hasAppUserModelID)
    THEN NS_ERROR_NOT_IMPLEMENTED
    ELSE aPlatform.threadRv

\* What Init returns.
InitResult(aPlatform) ==
  IF ~aPlatform.isWin8OrLater
    THEN NS_ERROR_NOT_IMPLEMENTED
    ELSE IF ~aPlatform.hasAppUserModelID
              /\ ~aPlatform.xpcshellTestProfileDir
    THEN NS_ERROR_NOT_IMPLEMENTED
    ELSE aPlatform.threadRv

\* ToastNotification::Init.  The service is used only once Init has
\* succeeded.
ToastNotificationInit(aPlatform) ==
  /\ pc = "constructed"
  /\ mBackgroundThread' = (InitResult(aPlatform) = NS_OK)
  /\ pc' = IF InitResult(aPlatform) = NS_OK THEN "idle" ELSE "constructed"
  /\ last' = [op |-> "Init", name |-> "", handler |-> NoHandler,
              oldHandler |-> NoHandler, rv |-> InitResult(aPlatform),
              platform |-> aPlatform]
  /\ UNCHANGED << mActiveHandlers, mSuppressForScreenSharing, handlers,
                  frame >>

\* The aPersistentData arguments of ShowPersistentNotification.
PersistentData == {"", "data"}

SetSuppressForScreenSharing(aSuppress) ==
  /\ pc = "idle"
  /\ UNCHANGED mBackgroundThread
  /\ mSuppressForScreenSharing' = aSuppress
  /\ last' = Returned("SetSuppressForScreenSharing", "", NoHandler, NoHandler,
                      NS_OK)
  /\ UNCHANGED << mActiveHandlers, handlers, pc, frame >>

\* ShowAlert returns rv before it has touched the table.
ShowAlert_Return(aAlert, rv) ==
  /\ last' = Returned("ShowAlert", aAlert.name, NoHandler, NoHandler, rv)
  /\ UNCHANGED << mActiveHandlers, mSuppressForScreenSharing, handlers, pc,
                  frame >>

\* A slip: the old handler is unregistered as soon as it is looked up, before
\* the new handler is in the table.
ShowAlert_Insert_UnregisterFirst(aAlert) ==
  /\ Len(handlers) < MaxHandlers
  /\ LET name == aAlert.name
         oldHandler == mActiveHandlers[name]
         handler == Len(handlers) + 1
         released == IF oldHandler # NoHandler
                       THEN UnregisterHandler(handlers, oldHandler)
                       ELSE handlers
     IN  /\ handlers' =
              Append(released, [NewHandler(name) EXCEPT !.inserted = TRUE])
         /\ mActiveHandlers' = [mActiveHandlers EXCEPT ![name] = handler]
         /\ frame' = [name |-> name, handler |-> handler,
                      oldHandler |-> oldHandler, rv |-> NS_OK]
         /\ pc' = "InitAlertAsync"
  /\ UNCHANGED << mSuppressForScreenSharing, last >>

\* ShowAlert once every getter has succeeded: the lookup of the old handler,
\* the construction of the new one and mActiveHandlers.InsertOrUpdate.
ShowAlert_Insert(aAlert) ==
  /\ Len(handlers) < MaxHandlers
  /\ LET name == aAlert.name
         oldHandler == mActiveHandlers[name]
         handler == Len(handlers) + 1
     IN  /\ handlers' =
              Append(handlers, [NewHandler(name) EXCEPT !.inserted = TRUE])
         /\ mActiveHandlers' = [mActiveHandlers EXCEPT ![name] = handler]
         /\ frame' = [name |-> name, handler |-> handler,
                      oldHandler |-> oldHandler, rv |-> NS_OK]
         /\ pc' = "InitAlertAsync"
  /\ UNCHANGED << mSuppressForScreenSharing, last >>

\* A slip: a failing getter drops the table's entry for the alert's name.
ShowAlert_GetterFailureDropsEntry(aAlert) ==
  /\ pc = "idle"
  /\ UNCHANGED mBackgroundThread
  /\ IF aAlert.null
       THEN ShowAlert_Return(aAlert, NS_ERROR_INVALID_ARG)
       ELSE IF mSuppressForScreenSharing
       THEN ShowAlert_Return(aAlert, NS_OK)
       ELSE IF aAlert.failAt # 0
       THEN /\ last' = Returned("ShowAlert", aAlert.name, NoHandler, NoHandler,
                                Getters[aAlert.failAt])
            /\ mActiveHandlers' =
                 [mActiveHandlers EXCEPT ![aAlert.name] = NoHandler]
            /\ UNCHANGED << mSuppressForScreenSharing, handlers, pc, frame >>
       ELSE ShowAlert_Insert(aAlert)

\* A slip: the suppression flag is read after the getters instead of before.
ShowAlert_SuppressCheckedLate(aAlert) ==
  /\ pc = "idle"
  /\ UNCHANGED mBackgroundThread
  /\ IF aAlert.null
       THEN ShowAlert_Return(aAlert, NS_ERROR_INVALID_ARG)
       ELSE IF aAlert.failAt # 0
       THEN ShowAlert_Return(aAlert, Getters[aAlert.failAt])
       ELSE IF mSuppressForScreenSharing
       THEN ShowAlert_Return(aAlert, NS_OK)
       ELSE ShowAlert_Insert(aAlert)

\* ShowAlert up to its call of handler->InitAlertAsync.
ShowAlert(aAlert) ==
  /\ pc = "idle"
  /\ UNCHANGED mBackgroundThread
  /\ IF aAlert.null
       THEN ShowAlert_Return(aAlert, NS_ERROR_INVALID_ARG)
       ELSE IF mSuppressForScreenSharing
       THEN ShowAlert_Return(aAlert, NS_OK)
       ELSE IF aAlert.failAt # 0
       THEN ShowAlert_Return(aAlert, Getters[aAlert.failAt])
       ELSE ShowAlert_Insert(aAlert)

\* A slip: the failure path removes the entry and forgets to unregister the
\* new handler.
ShowAlert_UnregisterNew_NoUnregister ==
  /\ pc = "UnregisterNew"
  /\ UNCHANGED mBackgroundThread
  /\ last' = Returned("ShowAlert", frame.name, frame.handler,
                      frame.oldHandler, frame.rv)
  /\ pc' = "idle"
  /\ frame' = NoFrame
  /\ UNCHANGED << mActiveHandlers, mSuppressForScreenSharing, handlers >>

\* A slip: the failure path empties the table instead of removing the one
\* entry.
ShowAlert_InitAlertAsync_ClearsTable(rv) ==
  /\ pc = "InitAlertAsync"
  /\ UNCHANGED mBackgroundThread
  /\ handlers' = InitAlertAsync(handlers, frame.handler, rv)
  /\ IF rv # NS_OK
       THEN /\ mActiveHandlers' = [n \in Names |-> NoHandler]
            /\ frame' = [frame EXCEPT !.rv = rv]
            /\ pc' = "UnregisterNew"
       ELSE /\ pc' = "UnregisterOld"
            /\ UNCHANGED << mActiveHandlers, frame >>
  /\ UNCHANGED << mSuppressForScreenSharing, last >>

\* A slip: the failure path leaves the entry of the new handler in the table.
ShowAlert_InitAlertAsync_KeepsEntry(rv) ==
  /\ pc = "InitAlertAsync"
  /\ UNCHANGED mBackgroundThread
  /\ handlers' = InitAlertAsync(handlers, frame.handler, rv)
  /\ IF rv # NS_OK
       THEN /\ frame' = [frame EXCEPT !.rv = rv]
            /\ pc' = "UnregisterNew"
       ELSE /\ pc' = "UnregisterOld"
            /\ UNCHANGED frame
  /\ UNCHANGED << mActiveHandlers, mSuppressForScreenSharing, last >>

\* ShowAlert: handler->InitAlertAsync(aAlert) returns rv; on failure the entry
\* for the name is removed.
ShowAlert_InitAlertAsync(rv) ==
  /\ pc = "InitAlertAsync"
  /\ UNCHANGED mBackgroundThread
  /\ handlers' = InitAlertAsync(handlers, frame.handler, rv)
  /\ IF rv # NS_OK
       THEN /\ mActiveHandlers' =
                 [mActiveHandlers EXCEPT ![frame.name] = NoHandler]
            /\ frame' = [frame EXCEPT !.rv = rv]
            /\ pc' = "UnregisterNew"
       ELSE /\ pc' = "UnregisterOld"
            /\ UNCHANGED << mActiveHandlers, frame >>
  /\ UNCHANGED << mSuppressForScreenSharing, last >>

\* ShowAlert, failure path: handler->UnregisterHandler(); return rv.
ShowAlert_UnregisterNew ==
  /\ pc = "UnregisterNew"
  /\ UNCHANGED mBackgroundThread
  /\ handlers' = UnregisterHandler(handlers, frame.handler)
  /\ last' = Returned("ShowAlert", frame.name, frame.handler,
                      frame.oldHandler, frame.rv)
  /\ pc' = "idle"
  /\ frame' = NoFrame
  /\ UNCHANGED << mActiveHandlers, mSuppressForScreenSharing >>

\* A slip: the final step unregisters the handler just installed instead of
\* the one it replaced.
ShowAlert_UnregisterOld_WrongHandler ==
  /\ pc = "UnregisterOld"
  /\ UNCHANGED mBackgroundThread
  /\ handlers' =
       IF frame.oldHandler # NoHandler
         THEN UnregisterHandler(handlers, frame.handler)
         ELSE handlers
  /\ last' = Returned("ShowAlert", frame.name, frame.handler,
                      frame.oldHandler, NS_OK)
  /\ pc' = "idle"
  /\ frame' = NoFrame
  /\ UNCHANGED << mActiveHandlers, mSuppressForScreenSharing >>

\* A slip: the final step forgets the handler that was replaced.
ShowAlert_UnregisterOld_Forgotten ==
  /\ pc = "UnregisterOld"
  /\ UNCHANGED mBackgroundThread
  /\ last' = Returned("ShowAlert", frame.name, frame.handler,
                      frame.oldHandler, NS_OK)
  /\ pc' = "idle"
  /\ frame' = NoFrame
  /\ UNCHANGED << mActiveHandlers, mSuppressForScreenSharing, handlers >>

\* ShowAlert: if (oldHandler) oldHandler->UnregisterHandler(); return NS_OK.
ShowAlert_UnregisterOld ==
  /\ pc = "UnregisterOld"
  /\ UNCHANGED mBackgroundThread
  /\ handlers' =
       IF frame.oldHandler # NoHandler
         THEN UnregisterHandler(handlers, frame.oldHandler)
         ELSE handlers
  /\ last' = Returned("ShowAlert", frame.name, frame.handler,
                      frame.oldHandler, NS_OK)
  /\ pc' = "idle"
  /\ frame' = NoFrame
  /\ UNCHANGED << mActiveHandlers, mSuppressForScreenSharing >>

\* A slip: a notification that carries persistent data is shown even while
\* the suppression flag is set.
ShowPersistentNotification_IgnoresSuppression(aPersistentData, aAlert) ==
  IF aPersistentData # "" /\ ~aAlert.null /\ aAlert.failAt = 0
    THEN /\ pc = "idle"
         /\ UNCHANGED mBackgroundThread
         /\ ShowAlert_Insert(aAlert)
    ELSE ShowAlert(aAlert)

\* ShowPersistentNotification: return ShowAlert(aAlert, aAlertListener).
ShowPersistentNotification(aPersistentData, aAlert) ==
  ShowAlert(aAlert)

\* What the tail of GetXmlStringForWindowsAlert may return: GetImageURL
\* fails, or CreateToastXmlString fails or succeeds.
XmlResults == {NS_OK, "GetImageURL", "CreateToastXmlString"}

\* What GetXmlStringForWindowsAlert returns.
XmlResult(aAlert, rvXml) ==
  IF aAlert.null
    THEN NS_ERROR_INVALID_ARG
    ELSE IF aAlert.failAt # 0 THEN Getters[aAlert.failAt] ELSE rvXml

\* A slip: the handler built for the markup is put into the table, as
\* ShowAlert does with its handler.
GetXmlStringForWindowsAlert_Inserts(aAlert, rvXml) ==
  /\ pc = "idle"
  /\ UNCHANGED mBackgroundThread
  /\ last' = Returned("GetXmlStringForWindowsAlert", aAlert.name, NoHandler,
                      NoHandler, XmlResult(aAlert, rvXml))
  /\ IF ~aAlert.null /\ aAlert.failAt = 0 /\ Len(handlers) < MaxHandlers
       THEN /\ handlers' =
                 Append(handlers,
                        [NewHandler(aAlert.name) EXCEPT !.inserted = TRUE])
            /\ mActiveHandlers' =
                 [mActiveHandlers EXCEPT ![aAlert.name] = Len(handlers) + 1]
       ELSE UNCHANGED << mActiveHandlers, handlers >>
  /\ UNCHANGED << mSuppressForScreenSharing, pc, frame >>

\* GetXmlStringForWindowsAlert: the handler it constructs is local to the
\* call and released when it returns; it never reaches the table.
GetXmlStringForWindowsAlert(aAlert, rvXml) ==
  /\ pc = "idle"
  /\ UNCHANGED mBackgroundThread
  /\ last' = Returned("GetXmlStringForWindowsAlert", aAlert.name, NoHandler,
                      NoHandler, XmlResult(aAlert, rvXml))
  /\ UNCHANGED << mActiveHandlers, mSuppressForScreenSharing, handlers, pc,
                  frame >>

\* The locals of a method that has removed handler from under name and has
\* yet to unregister it.
Removed(name, handler) ==
  [name |-> name, handler |-> handler, oldHandler |-> NoHandler, rv |-> NS_OK]

\* A slip: closing a name that has no entry is reported as a failure.
CloseAlert_AbsentFails(aAlertName) ==
  /\ pc = "idle"
  /\ UNCHANGED mBackgroundThread
  /\ LET handler == mActiveHandlers[aAlertName]
     IN  IF handler = NoHandler
           THEN /\ last' = Returned("CloseAlert", aAlertName, NoHandler,
                                    NoHandler, "NS_ERROR_FAILURE")
                /\ UNCHANGED << mActiveHandlers, pc, frame >>
           ELSE /\ mActiveHandlers' =
                     [mActiveHandlers EXCEPT ![aAlertName] = NoHandler]
                /\ frame' = Removed(aAlertName, handler)
                /\ pc' = "CloseAlert_Unregister"
                /\ UNCHANGED last
  /\ UNCHANGED << mSuppressForScreenSharing, handlers >>

\* A slip: with the suppression flag set, CloseAlert does nothing.
CloseAlert_SuppressedDoesNothing(aAlertName) ==
  /\ pc = "idle"
  /\ UNCHANGED mBackgroundThread
  /\ LET handler == mActiveHandlers[aAlertName]
     IN  IF handler = NoHandler \/ mSuppressForScreenSharing
           THEN /\ last' = Returned("CloseAlert", aAlertName, NoHandler,
                                    NoHandler, NS_OK)
                /\ UNCHANGED << mActiveHandlers, pc, frame >>
           ELSE /\ mActiveHandlers' =
                     [mActiveHandlers EXCEPT ![aAlertName] = NoHandler]
                /\ frame' = Removed(aAlertName, handler)
                /\ pc' = "CloseAlert_Unregister"
                /\ UNCHANGED last
  /\ UNCHANGED << mSuppressForScreenSharing, handlers >>

\* A slip: CloseAlert leaves the entry for the second step to remove.
CloseAlert_KeepsEntry(aAlertName) ==
  /\ pc = "idle"
  /\ UNCHANGED mBackgroundThread
  /\ LET handler == mActiveHandlers[aAlertName]
     IN  IF handler = NoHandler
           THEN /\ last' = Returned("CloseAlert", aAlertName, NoHandler,
                                    NoHandler, NS_OK)
                /\ UNCHANGED << pc, frame >>
           ELSE /\ frame' = Removed(aAlertName, handler)
                /\ pc' = "CloseAlert_Unregister"
                /\ UNCHANGED last
  /\ UNCHANGED << mActiveHandlers, mSuppressForScreenSharing, handlers >>

\* CloseAlert up to and including mActiveHandlers.Remove(aAlertName).
CloseAlert(aAlertName) ==
  /\ pc = "idle"
  /\ UNCHANGED mBackgroundThread
  /\ LET handler == mActiveHandlers[aAlertName]
     IN  IF handler = NoHandler
           THEN /\ last' = Returned("CloseAlert", aAlertName, NoHandler,
                                    NoHandler, NS_OK)
                /\ UNCHANGED << mActiveHandlers, pc, frame >>
           ELSE /\ mActiveHandlers' =
                     [mActiveHandlers EXCEPT ![aAlertName] = NoHandler]
                /\ frame' = Removed(aAlertName, handler)
                /\ pc' = "CloseAlert_Unregister"
                /\ UNCHANGED last
  /\ UNCHANGED << mSuppressForScreenSharing, handlers >>

\* CloseAlert: handler->UnregisterHandler(); return NS_OK.
CloseAlert_UnregisterHandler ==
  /\ pc = "CloseAlert_Unregister"
  /\ UNCHANGED mBackgroundThread
  /\ handlers' = UnregisterHandler(handlers, frame.handler)
  /\ last' = Returned("CloseAlert", frame.name, frame.handler, NoHandler,
                      NS_OK)
  /\ pc' = "idle"
  /\ frame' = NoFrame
  /\ UNCHANGED << mActiveHandlers, mSuppressForScreenSharing >>

\* A slip: any entry under the name counts, whichever handler it holds.
IsActiveHandler_AnyEntry(aAlertName, aHandler) ==
  mActiveHandlers[aAlertName] # NoHandler

IsActiveHandler(aAlertName, aHandler) ==
  /\ mActiveHandlers[aAlertName] # NoHandler
  /\ mActiveHandlers[aAlertName] = aHandler

\* A slip: a handler that is no longer the entry of its name is unregistered
\* all the same.
RemoveHandler_AlwaysUnregisters(aAlertName, aHandler) ==
  /\ pc = "idle"
  /\ UNCHANGED mBackgroundThread
  /\ aHandler \in Created
  /\ mActiveHandlers' =
       IF IsActiveHandler(aAlertName, aHandler)
         THEN [mActiveHandlers EXCEPT ![aAlertName] = NoHandler]
         ELSE mActiveHandlers
  /\ frame' = Removed(aAlertName, aHandler)
  /\ pc' = "RemoveHandler_Unregister"
  /\ UNCHANGED << mSuppressForScreenSharing, handlers, last >>

\* RemoveHandler up to and including mActiveHandlers.Remove(aAlertName).
RemoveHandler(aAlertName, aHandler) ==
  /\ pc = "idle"
  /\ UNCHANGED mBackgroundThread
  /\ aHandler \in Created
  /\ IF IsActiveHandler(aAlertName, aHandler)
       THEN /\ mActiveHandlers' =
                 [mActiveHandlers EXCEPT ![aAlertName] = NoHandler]
            /\ frame' = Removed(aAlertName, aHandler)
            /\ pc' = "RemoveHandler_Unregister"
            /\ UNCHANGED last
       ELSE /\ last' = Returned("RemoveHandler", aAlertName, aHandler,
                                NoHandler, NS_OK)
            /\ UNCHANGED << mActiveHandlers, pc, frame >>
  /\ UNCHANGED << mSuppressForScreenSharing, handlers >>

\* RemoveHandler: aHandler->UnregisterHandler().
RemoveHandler_UnregisterHandler ==
  /\ pc = "RemoveHandler_Unregister"
  /\ UNCHANGED mBackgroundThread
  /\ handlers' = UnregisterHandler(handlers, frame.handler)
  /\ last' = Returned("RemoveHandler", frame.name, frame.handler, NoHandler,
                      NS_OK)
  /\ pc' = "idle"
  /\ frame' = NoFrame
  /\ UNCHANGED << mActiveHandlers, mSuppressForScreenSharing >>

\* The names that have an entry.
ActiveNames == {n \in Names : mActiveHandlers[n] # NoHandler}

\* Observe returns; drained is the handler it unregistered last, if any.
Observe_Return(rv, drained) ==
  /\ last' = Returned("Observe", "", drained, NoHandler, rv)
  /\ pc' = "idle"
  /\ frame' = NoFrame

\* A slip: a drain that finds nothing to do reports a failure.
Observe_EmptyFails ==
  /\ pc = "idle"
  /\ UNCHANGED mBackgroundThread
  /\ IF ActiveNames = {}
       THEN /\ Observe_Return("NS_ERROR_FAILURE", NoHandler)
            /\ UNCHANGED mActiveHandlers
       ELSE \E n \in ActiveNames :
              /\ mActiveHandlers' = [mActiveHandlers EXCEPT ![n] = NoHandler]
              /\ frame' = Removed(n, mActiveHandlers[n])
              /\ pc' = "Observe_Unregister"
              /\ UNCHANGED last
  /\ UNCHANGED << mSuppressForScreenSharing, handlers >>

\* quit-application: Observe up to and including the first iter.Remove(), or
\* to its return when the table is empty.  The table iterates in no order
\* the caller controls.
Observe ==
  /\ pc = "idle"
  /\ UNCHANGED mBackgroundThread
  /\ IF ActiveNames = {}
       THEN /\ Observe_Return(NS_OK, NoHandler)
            /\ UNCHANGED mActiveHandlers
       ELSE \E n \in ActiveNames :
              /\ mActiveHandlers' = [mActiveHandlers EXCEPT ![n] = NoHandler]
              /\ frame' = Removed(n, mActiveHandlers[n])
              /\ pc' = "Observe_Unregister"
              /\ UNCHANGED last
  /\ UNCHANGED << mSuppressForScreenSharing, handlers >>

\* Observe: handler->UnregisterHandler() on the entry just removed, then
\* iter.Next(): the next entry is removed, or the loop is done.
Observe_UnregisterHandler ==
  /\ pc = "Observe_Unregister"
  /\ UNCHANGED mBackgroundThread
  /\ handlers' = UnregisterHandler(handlers, frame.handler)
  /\ IF ActiveNames = {}
       THEN /\ Observe_Return(NS_OK, frame.handler)
            /\ UNCHANGED mActiveHandlers
       ELSE \E n \in ActiveNames :
              /\ mActiveHandlers' = [mActiveHandlers EXCEPT ![n] = NoHandler]
              /\ frame' = Removed(n, mActiveHandlers[n])
              /\ UNCHANGED << pc, last >>
  /\ UNCHANGED mSuppressForScreenSharing

Next ==
  \/ \E aPlatform \in Platforms : ToastNotificationInit(aPlatform)
  \/ \E aSuppress \in BOOLEAN : SetSuppressForScreenSharing(aSuppress)
  \/ \E aAlert \in Alerts : ShowAlert(aAlert)
  \/ \E aPersistentData \in PersistentData, aAlert \in Alerts :
       ShowPersistentNotification(aPersistentData, aAlert)
  \/ \E aAlert \in Alerts, rvXml \in XmlResults :
       GetXmlStringForWindowsAlert(aAlert, rvXml)
  \/ \E rv \in InitResults : ShowAlert_InitAlertAsync(rv)
  \/ ShowAlert_UnregisterNew
  \/ ShowAlert_UnregisterOld
  \/ \E aAlertName \in Names : CloseAlert(aAlertName)
  \/ CloseAlert_UnregisterHandler
  \/ \E aAlertName \in Names, aHandler \in HandlerIds :
       RemoveHandler(aAlertName, aHandler)
  \/ RemoveHandler_UnregisterHandler
  \/ Observe
  \/ Observe_UnregisterHandler

Spec == Init /\ [][Next]_vars

\* The methods that show, close, remove and drain, without the rendering of
\* markup: the service as the two show methods see it.
NextShow ==
  \/ \E aPlatform \in Platforms : ToastNotificationInit(aPlatform)
  \/ \E aSuppress \in BOOLEAN : SetSuppressForScreenSharing(aSuppress)
  \/ \E aAlert \in Alerts : ShowAlert(aAlert)
  \/ \E aPersistentData \in PersistentData, aAlert \in Alerts :
       ShowPersistentNotification(aPersistentData, aAlert)
  \/ \E rv \in InitResults : ShowAlert_InitAlertAsync(rv)
  \/ ShowAlert_UnregisterNew
  \/ ShowAlert_UnregisterOld
  \/ \E aAlertName \in Names : CloseAlert(aAlertName)
  \/ CloseAlert_UnregisterHandler
  \/ \E aAlertName \in Names, aHandler \in HandlerIds :
       RemoveHandler(aAlertName, aHandler)
  \/ RemoveHandler_UnregisterHandler
  \/ Observe
  \/ Observe_UnregisterHandler

SpecShow == Init /\ [][NextShow]_vars

(* ------------------------------ claims -------------------------------- *)

\* A handler that is in the table under exactly the name n.
OnlyEntryFor(n, h) ==
  /\ h \in Created
  /\ mActiveHandlers[n] = h
  /\ handlers[h].name = n
  /\ \A m \in Names : mActiveHandlers[m] = h => m = n

\* ShowAlert has just returned (no method has started since).
JustReturned(op) == pc = "idle" /\ last.op = op

\* C1 as stated: in the state right after ShowAlert for n returns success, the
\* table's entry for n is the handler this call created, and UnregisterHandler
\* has not been called on it.
C1_Original ==
  (JustReturned("ShowAlert") /\ last.rv = NS_OK)
    => /\ OnlyEntryFor(last.name, last.handler)
       /\ handlers[last.handler].unregistered = 0

\* C1 amended: in the state right after a ShowAlert for n that was called
\* with suppression clear returns success, the table's entry for n is the
\* handler this call created, and UnregisterHandler has not been called on it.
C1_ShowAlertInstalls ==
  (JustReturned("ShowAlert") /\ last.rv = NS_OK /\ ~mSuppressForScreenSharing)
    => /\ OnlyEntryFor(last.name, last.handler)
       /\ handlers[last.handler].unregistered = 0

C1_Witness ==
  /\ JustReturned("ShowAlert")
  /\ last.rv = NS_OK
  /\ ~mSuppressForScreenSharing
  /\ last.oldHandler # NoHandler
  /\ mActiveHandlers[last.name] = last.handler

\* Handler h1 was installed under a name and a later handler h2 was installed
\* under the same name.
InsertedBefore(h1, h2) ==
  /\ h1 < h2
  /\ handlers[h1].inserted
  /\ handlers[h2].inserted
  /\ handlers[h1].name = handlers[h2].name

\* From the second insert on, the first handler is never the current entry.
NeverCurrentAgain ==
  \A h1 \in Created, h2 \in Created :
    InsertedBefore(h1, h2) => mActiveHandlers[handlers[h1].name] # h1

Live(h) == handlers[h].inserted /\ handlers[h].unregistered = 0

\* C3: between operations, every handler that was inserted and has not been
\* unregistered is the table's current entry for its name.
C3_LiveIsReachable ==
  pc = "idle" =>
    \A h \in Created : Live(h) => mActiveHandlers[handlers[h].name] = h

\* C4: once Observe (quit-application) has returned, the table is empty and
\* every handler that was ever put into the table has been unregistered
\* exactly once.
C4_DrainUnregistersAllLive ==
  JustReturned("Observe") =>
    /\ \A n \in Names : mActiveHandlers[n] = NoHandler
    /\ \A h \in Created :
         handlers[h].inserted => handlers[h].unregistered = 1

C6_RemoveOnlyIfCurrent ==
  [][/\ \A n \in Names, h \in HandlerIds :
          RemoveHandler(n, h) =>
            /\ handlers' = handlers
            /\ IF mActiveHandlers[n] = h
                 THEN /\ mActiveHandlers' =
                           [mActiveHandlers EXCEPT ![n] = NoHandler]
                      /\ pc' = "RemoveHandler_Unregister"
                      /\ frame'.handler = h
                 ELSE /\ mActiveHandlers' = mActiveHandlers
                      /\ pc' = "idle"
     /\ RemoveHandler_UnregisterHandler =>
          /\ mActiveHandlers' = mActiveHandlers
          /\ handlers' =
               [handlers EXCEPT ![frame.handler].unregistered = @ + 1]
          /\ pc' = "idle"]_vars

\* A replaced (already unregistered) handler called RemoveHandler, and the
\* handler that replaced it is still the entry.
C6_Witness ==
  /\ JustReturned("RemoveHandler")
  /\ handlers[last.handler].name = last.name
  /\ handlers[last.handler].unregistered = 1
  /\ mActiveHandlers[last.name] \in Created \ {last.handler}
  /\ Live(mActiveHandlers[last.name])

\* C7: when InitAlertAsync fails inside ShowAlert, the entry for the name is
\* at that point the new handler's; it is removed, the new handler is
\* unregistered, nothing else in the table changes, and ShowAlert returns the
\* failure.
C7_InitFailureRollsBack ==
  [][/\ \A rv \in InitResults \ {NS_OK} :
          ShowAlert_InitAlertAsync(rv) =>
            /\ mActiveHandlers[frame.name] = frame.handler
            /\ mActiveHandlers' =
                 [mActiveHandlers EXCEPT ![frame.name] = NoHandler]
            /\ pc' = "UnregisterNew"
            /\ frame'.handler = frame.handler
            /\ frame'.rv = rv
     /\ ShowAlert_UnregisterNew =>
          /\ mActiveHandlers' = mActiveHandlers
          /\ handlers'[frame.handler].unregistered = 1
          /\ pc' = "idle"
          /\ last'.op = "ShowAlert"
          /\ last'.rv = frame.rv
          /\ last'.rv # NS_OK]_vars

C7_Witness ==
  /\ JustReturned("ShowAlert")
  /\ last.rv = NS_ERROR_INIT_FAILED
  /\ mActiveHandlers[last.name] = NoHandler
  /\ handlers[last.handler].unregistered = 1

\* C8: a ShowAlert that stops at the null check or at a failing getter returns
\* that error and leaves the table and every handler as they were.
C8_AbortLeavesRegistry ==
  [][\A aAlert \in Alerts :
       (ShowAlert(aAlert)
          /\ (aAlert.null
                \/ (~mSuppressForScreenSharing /\ aAlert.failAt # 0))) =>
         /\ last'.op = "ShowAlert"
         /\ last'.rv = IF aAlert.null THEN NS_ERROR_INVALID_ARG
                                      ELSE Getters[aAlert.failAt]
         /\ pc' = "idle"
         /\ mActiveHandlers' = mActiveHandlers
         /\ handlers' = handlers]_vars

\* A getter failed while the name had a live handler, which is still the
\* entry.
C8_Witness ==
  /\ JustReturned("ShowAlert")
  /\ \E k \in 1..Len(Getters) : last.rv = Getters[k]
  /\ mActiveHandlers[last.name] \in Created
  /\ Live(mActiveHandlers[last.name])

\* C9: CloseAlert on a name that has no entry returns success and changes
\* neither the table nor any handler.
C9_CloseAbsentIsNoOp ==
  [][\A n \in Names :
       (CloseAlert(n) /\ mActiveHandlers[n] = NoHandler) =>
         /\ last'.op = "CloseAlert"
         /\ last'.rv = NS_OK
         /\ mActiveHandlers' = mActiveHandlers
         /\ handlers' = handlers]_vars

\* CloseAlert found no entry for a name whose handler an earlier call had
\* unregistered.
C9_Witness ==
  /\ JustReturned("CloseAlert")
  /\ last.handler = NoHandler
  /\ last.rv = NS_OK
  /\ \E h \in Created :
       handlers[h].name = last.name /\ handlers[h].unregistered = 1

\* C10: while the suppression flag is set, ShowAlert for any alert returns
\* success and changes neither the table nor any handler; while it is clear,
\* ShowAlert for an alert whose getters succeed installs a new handler and goes
\* on to initialize it.
C10_SuppressionGatesShowAlert ==
  [][\A aAlert \in Alerts \ {NullAlert} :
       ShowAlert(aAlert) =>
         IF mSuppressForScreenSharing
           THEN /\ last'.op = "ShowAlert"
                /\ last'.rv = NS_OK
                /\ pc' = "idle"
                /\ mActiveHandlers' = mActiveHandlers
                /\ handlers' = handlers
           ELSE aAlert.failAt = 0 =>
                  /\ pc' = "InitAlertAsync"
                  /\ Len(handlers') = Len(handlers) + 1
                  /\ mActiveHandlers'[aAlert.name] = Len(handlers')
                  /\ handlers'[Len(handlers')].init = "none"]_vars

\* A suppressed ShowAlert returned success for an alert whose name has no
\* entry, although handlers had been shown before the flag was set.
C10_Witness ==
  /\ JustReturned("ShowAlert")
  /\ mSuppressForScreenSharing
  /\ last.rv = NS_OK
  /\ last.handler = NoHandler
  /\ last.name \in Names
  /\ mActiveHandlers[last.name] = NoHandler

\* C11: GetXmlStringForWindowsAlert changes neither the table nor any
\* handler, whatever it returns and whether or not the alert's name has an
\* entry.
C11_RenderOnlyIsPure ==
  [][\/ /\ mActiveHandlers' = mActiveHandlers
        /\ handlers' = handlers
        /\ pc' = "idle"
     \/ ~ \E aAlert \in Alerts, rvXml \in XmlResults :
            GetXmlStringForWindowsAlert(aAlert, rvXml)]_vars

\* The markup was produced for a name that has a live handler, which is
\* still the entry.
C11_Witness ==
  /\ JustReturned("GetXmlStringForWindowsAlert")
  /\ last.rv = NS_OK
  /\ mActiveHandlers[last.name] \in Created
  /\ Live(mActiveHandlers[last.name])


\* C12 as stated: on a Windows older than 8, Init returns
\* NS_ERROR_NOT_IMPLEMENTED unless XPCSHELL_TEST_PROFILE_DIR is set, and with
\* it set Init returns what it returns on a supported Windows.
C12_Original ==
  [][\A aPlatform \in Platforms :
       (ToastNotificationInit(aPlatform) /\ ~aPlatform.isWin8OrLater) =>
         last'.rv =
           IF aPlatform.xpcshellTestProfileDir
             THEN InitResult([aPlatform EXCEPT !.isWin8OrLater = TRUE])
             ELSE NS_ERROR_NOT_IMPLEMENTED]_vars

\* C12: on a Windows older than 8, Init returns NS_ERROR_NOT_IMPLEMENTED
\* whether or not XPCSHELL_TEST_PROFILE_DIR is set, creates no background
\* thread and leaves the service unusable; the variable excuses only a
\* missing AppUserModelID.
C12_InitVersionCheck ==
  [][\A aPlatform \in Platforms :
       ToastNotificationInit(aPlatform) =>
         /\ ~aPlatform.isWin8OrLater =>
              /\ last'.rv = NS_ERROR_NOT_IMPLEMENTED
              /\ ~mBackgroundThread'
              /\ pc' = "constructed"
         /\ (/\ aPlatform.isWin8OrLater
             /\ ~aPlatform.hasAppUserModelID
             /\ aPlatform.xpcshellTestProfileDir) =>
              last'.rv = aPlatform.threadRv]_vars

\* Init has just failed on an old Windows although
\* XPCSHELL_TEST_PROFILE_DIR was set and everything else was in order.
C12_Witness ==
  /\ pc = "constructed"
  /\ last.op = "Init"
  /\ ~last.platform.isWin8OrLater
  /\ last.platform.xpcshellTestProfileDir
  /\ last.platform.threadRv = NS_OK
  /\ last.rv = NS_ERROR_NOT_IMPLEMENTED
  /\ ~mBackgroundThread

\* C13: CloseAlert on a name that has an entry first removes that entry and
\* nothing else, with no handler unregistered yet, and only then unregisters
\* the handler it removed, once, and no other; the entries of other names are
\* the same throughout.
C13_CloseRemovesThenUnregisters ==
  [][/\ \A aAlertName \in Names :
          (CloseAlert(aAlertName) /\ mActiveHandlers[aAlertName] # NoHandler)
            => /\ mActiveHandlers' =
                    [mActiveHandlers EXCEPT ![aAlertName] = NoHandler]
               /\ handlers' = handlers
               /\ pc' = "CloseAlert_Unregister"
               /\ frame'.name = aAlertName
               /\ frame'.handler = mActiveHandlers[aAlertName]
     /\ CloseAlert_UnregisterHandler
          => /\ mActiveHandlers[frame.name] = NoHandler
             /\ mActiveHandlers' = mActiveHandlers
             /\ handlers[frame.handler].unregistered = 0
             /\ \A h \in Created :
                  handlers'[h].unregistered =
                    IF h = frame.handler THEN 1
                    ELSE handlers[h].unregistered
             /\ pc' = "idle"
             /\ last'.rv = NS_OK]_vars

\* CloseAlert has just removed and unregistered the handler of one name while
\* the other name keeps its live handler.
C13_Witness ==
  /\ JustReturned("CloseAlert")
  /\ last.handler # NoHandler
  /\ handlers[last.handler].unregistered = 1
  /\ mActiveHandlers[last.name] = NoHandler
  /\ \E m \in Names \ {last.name} :
       /\ mActiveHandlers[m] # NoHandler
       /\ Live(mActiveHandlers[m])

\* A step that unregisters the handler a method has taken out of the table.
UnregistersRemoved ==
  \/ CloseAlert_UnregisterHandler
  \/ RemoveHandler_UnregisterHandler
  \/ Observe_UnregisterHandler

\* C14: SetSuppressForScreenSharing changes the flag and neither the table
\* nor any handler; and whatever the flag, which they leave alone, CloseAlert
\* removes the entry of its name, RemoveHandler removes the entry that is its
\* handler, Observe removes entries until none is left, and each of them
\* unregisters the handler it removed.
C14_SuppressionOnlyGatesShows ==
  [][/\ \A aSuppress \in BOOLEAN :
          SetSuppressForScreenSharing(aSuppress)
            => /\ mSuppressForScreenSharing' = aSuppress
               /\ mActiveHandlers' = mActiveHandlers
               /\ handlers' = handlers
     /\ \A aAlertName \in Names :
          (CloseAlert(aAlertName) /\ mActiveHandlers[aAlertName] # NoHandler)
            => /\ mActiveHandlers' =
                    [mActiveHandlers EXCEPT ![aAlertName] = NoHandler]
               /\ frame'.handler = mActiveHandlers[aAlertName]
               /\ pc' = "CloseAlert_Unregister"
               /\ UNCHANGED mSuppressForScreenSharing
     /\ \A aAlertName \in Names, aHandler \in HandlerIds :
          (RemoveHandler(aAlertName, aHandler)
             /\ mActiveHandlers[aAlertName] = aHandler)
            => /\ mActiveHandlers' =
                    [mActiveHandlers EXCEPT ![aAlertName] = NoHandler]
               /\ frame'.handler = aHandler
               /\ pc' = "RemoveHandler_Unregister"
               /\ UNCHANGED mSuppressForScreenSharing
     /\ (Observe /\ ActiveNames # {})
          => /\ \E n \in ActiveNames :
                  /\ mActiveHandlers' =
                       [mActiveHandlers EXCEPT ![n] = NoHandler]
                  /\ frame'.handler = mActiveHandlers[n]
             /\ pc' = "Observe_Unregister"
             /\ UNCHANGED mSuppressForScreenSharing
     /\ UnregistersRemoved
          => /\ handlers'[frame.handler].unregistered =
                  handlers[frame.handler].unregistered + 1
             /\ UNCHANGED mSuppressForScreenSharing
     /\ (Observe_UnregisterHandler /\ pc' = "idle")
          => \A n \in Names : mActiveHandlers'[n] = NoHandler]_vars

\* With the flag set, CloseAlert has just removed and unregistered a handler
\* that was live.
C14_Witness ==
  /\ JustReturned("CloseAlert")
  /\ mSuppressForScreenSharing
  /\ last.handler # NoHandler
  /\ handlers[last.handler].unregistered = 1
  /\ mActiveHandlers[last.name] = NoHandler

\* C15: a step is a ShowPersistentNotification call on an alert, whatever its
\* aPersistentData, exactly when it is a ShowAlert call on that alert: from
\* any state the two have the same result, table and handlers.
C15_PersistentIsShowAlert ==
  [][\A aAlert \in Alerts, aPersistentData \in PersistentData :
       ShowPersistentNotification(aPersistentData, aAlert)
         <=> ShowAlert(aAlert)]_vars

\* A show has just succeeded and installed a handler while another name has
\* a live entry; the call that began it is a ShowPersistentNotification step
\* as much as a ShowAlert step.
C15_Witness ==
  /\ JustReturned("ShowAlert")
  /\ last.rv = NS_OK
  /\ last.handler # NoHandler
  /\ mActiveHandlers[last.name] = last.handler
  /\ \E m \in Names \ {last.name} : mActiveHandlers[m] # NoHandler

\* C16: UnregisterHandler is called on no handler more than once, in any
\* state, the states inside a method included.
C16_UnregisteredAtMostOnce ==
  \A h \in Created : handlers[h].unregistered <= 1

\* Every handler created so far has been unregistered, each by a different
\* path: one was superseded or closed or drained, the other failed to
\* initialise, and the table is empty again.
C16_Witness ==
  /\ pc = "idle"
  /\ Len(handlers) >= 2
  /\ \A h \in Created : handlers[h].unregistered = 1
  /\ \E h \in Created : handlers[h].init = "failed"
  /\ \E h \in Created : handlers[h].init = "ok"
  /\ \A n \in Names : mActiveHandlers[n] = NoHandler
  /\ last.op \in {"Observe", "CloseAlert", "RemoveHandler"}

\* C17: Observe on an empty table returns NS_OK in one step, calls
\* UnregisterHandler on nothing and leaves the table empty; and an Observe
\* that follows the return of an Observe finds the table empty.
C17_DrainOfEmptyIsNoOp ==
  [][/\ (Observe /\ ActiveNames = {})
       => /\ last'.op = "Observe"
          /\ last'.rv = NS_OK
          /\ last'.handler = NoHandler
          /\ pc' = "idle"
          /\ handlers' = handlers
          /\ mActiveHandlers' = mActiveHandlers
          /\ \A n \in Names : mActiveHandlers'[n] = NoHandler
     /\ (Observe /\ last.op = "Observe") => ActiveNames = {}]_vars

\* Observe has just returned from a table it found empty: the handlers
\* that were shown have all been unregistered before, none is in the table.
C17_Witness ==
  /\ JustReturned("Observe")
  /\ last.rv = NS_OK
  /\ last.handler = NoHandler
  /\ Len(handlers) >= 1
  /\ \A h \in Created : handlers[h].inserted /\ handlers[h].unregistered = 1
  /\ ActiveNames = {}

\* No entry of the table is a handler on which UnregisterHandler has been
\* called.
NoEntryUnregistered ==
  \A n \in Names :
    mActiveHandlers[n] # NoHandler =>
      /\ mActiveHandlers[n] \in Created
      /\ handlers[mActiveHandlers[n]].unregistered = 0

\* C18: in every state, inside a method as well as between methods, no entry
\* of the table is an unregistered handler; a step that calls
\* UnregisterHandler on a handler starts from a table that no longer holds
\* it; and a step that puts a handler into the table creates that handler.
C18_EntriesNeverUnregistered ==
  /\ []NoEntryUnregistered
  /\ [][/\ \A h \in Created :
             handlers'[h].unregistered # handlers[h].unregistered
               => \A n \in Names : mActiveHandlers[n] # h
        /\ \A n \in Names :
             (mActiveHandlers'[n] # mActiveHandlers[n]
                /\ mActiveHandlers'[n] # NoHandler)
               => /\ mActiveHandlers'[n] \notin Created
                  /\ handlers'[mActiveHandlers'[n]].unregistered = 0]_vars

\* ShowAlert has taken the handler whose InitAlertAsync failed out of the
\* table and is about to unregister it, while the other name keeps a live
\* entry.
C18_Witness ==
  /\ pc = "UnregisterNew"
  /\ mActiveHandlers[frame.name] = NoHandler
  /\ handlers[frame.handler].inserted
  /\ handlers[frame.handler].unregistered = 0
  /\ \E m \in Names \ {frame.name} :
       /\ mActiveHandlers[m] # NoHandler
       /\ handlers[mActiveHandlers[m]].unregistered = 0

\* ShowAlert, CloseAlert or RemoveHandler is under way; frame.name is the name
\* it was called for.
InShowCloseRemove ==
  pc \in {"InitAlertAsync", "UnregisterNew", "UnregisterOld",
          "CloseAlert_Unregister", "RemoveHandler_Unregister"}

\* The step changes neither the entry of a name other than n nor any handler
\* made for a name other than n.
OthersUntouched(n) ==
  /\ \A m \in Names \ {n} : mActiveHandlers'[m] = mActiveHandlers[m]
  /\ \A h \in Created : handlers[h].name # n => handlers'[h] = handlers[h]

\* C19: every step of ShowAlert, CloseAlert and RemoveHandler for a name,
\* from the call to the return, whatever the call returns, leaves the entries
\* of the other names and the handlers made for the other names as they were.
C19_OtherNamesUntouched ==
  [][/\ \A aAlert \in Alerts :
          ShowAlert(aAlert) => OthersUntouched(aAlert.name)
     /\ \A aAlertName \in Names :
          CloseAlert(aAlertName) => OthersUntouched(aAlertName)
     /\ \A aAlertName \in Names, aHandler \in HandlerIds :
          RemoveHandler(aAlertName, aHandler) => OthersUntouched(aAlertName)
     /\ InShowCloseRemove => OthersUntouched(frame.name)]_vars

\* ShowAlert for one name has just failed in InitAlertAsync and rolled back,
\* and the other name still has its live entry.
C19_Witness ==
  /\ JustReturned("ShowAlert")
  /\ last.rv = NS_ERROR_INIT_FAILED
  /\ mActiveHandlers[last.name] = NoHandler
  /\ \E m \in Names \ {last.name} :
       /\ mActiveHandlers[m] # NoHandler
       /\ handlers[mActiveHandlers[m]].name = m
       /\ Live(mActiveHandlers[m])

====
